---- MODULE Spec2Model ----
(***************************************************************************)
(* Model of src/src/codal_app/microbithal.cpp: the C-callable HAL shim     *)
(* over the CODAL device layer.  The state is the file's static storage    *)
(* (button_state, touch_state, pin_pull_state, spi) together with the      *)
(* device-layer state the shim reads and writes (pending edge counts, the  *)
(* display image).  History variables record what each call returned.      *)
(***************************************************************************)
EXTENDS Integers, Sequences, FiniteSets

VARIABLES
    button_state,   \* static uint16_t button_state[2]
    touch_state,    \* static uint16_t touch_state[4]
    pin_pull_state, \* static uint8_t pin_pull_state[32 + 6] (element i at i + 1)
    clickCount,     \* device layer: presses pending per button (wasPressed)
    touchCount,     \* device layer: touches pending per pin (wasTouched)
    edgeEvents,     \* number of edge events the device layer has produced
    watch,          \* the channel whose history is followed (any one of them)
    hist,           \* history of what the polls of that channel were told and returned
    image,          \* device layer: uBit.display.image, raw intensity per pixel
    lastBright,     \* per pixel: the level of the last set_pixel in a set, {} if none
    spi,            \* static NRF52SPI *spi: FALSE while NULL
    layout,         \* what the build placed right after pin_pull_state
    spill,          \* the 3 bytes after pin_pull_state when no modelled array is there
    pinPullMode,    \* device layer: the PullMode given to each pin that was given one
    lastPull,       \* the pull of the last set_pull of each pin that had one
    pullCalls,      \* number of set_pull calls made
    call            \* the HAL call of the last step, with its outputs

counterVars == <<clickCount, touchCount, edgeEvents, watch, hist>>
cellVars == <<button_state, touch_state>>
displayVars == <<image, lastBright>>
pullVars == <<pin_pull_state, layout, spill, pinPullMode, lastPull, pullCalls>>

vars == <<button_state, touch_state, pin_pull_state, clickCount, touchCount,
          edgeEvents, watch, hist, image, lastBright, spi, layout, spill,
          pinPullMode, lastPull, pullCalls, call>>

----------------------------------------------------------------------------
(* Sizes and constants of the source.                                      *)

\* HAL_ARRAY_SIZE(button_obj)
NumButtons == 2

\* number of cells of touch_state
NumTouchCells == 4

\* a cell is a uint16_t: values are kept modulo 2^16
CellModulus == 65536

\* index of the logo pin (pin_obj[19] is &uBit.io.logo)
MICROBIT_HAL_PIN_LOGO == 19

\* the largest count the 15 count bits of a cell hold
CountLimit == (CellModulus \div 2) - 1

Buttons == 0 .. (NumButtons - 1)

\* the pins callers poll for touch: pin0/1/2 and the logo
TouchPins == {0, 1, 2, MICROBIT_HAL_PIN_LOGO}

----------------------------------------------------------------------------
(* Bounds of the model.                                                    *)

\* edge events the device layer produces in one behaviour
MaxEdgeEvents == 2

\* sizes of one edge event on the followed channel: a single press, or a
\* long burst; the other channels see single presses
EdgeBatches == {1, 16384}

----------------------------------------------------------------------------
(* The packed counter cell (lines 338-353 and 237-251).                    *)

\* what the model shows for an output the caller did not ask for
NoOutput == 0 - 1

\* conversion of an int to uint16_t
U16(x) == x % CellModulus

\* x | 1
Or1(x) == IF x % 2 = 0 THEN x + 1 ELSE x

\* Fold as it would be if the new edges replaced the pending count.
FoldOverwrite(state, p) ==
    IF p # 0 THEN U16(Or1(p * 2)) ELSE state

\* Fold as it would be without the shift past the flag bit.
FoldUnshifted(state, p) ==
    IF p # 0 THEN U16(Or1(state + p)) ELSE state

\* if (p) state = (state + (p << 1)) | 1;
Fold(state, p) ==
    IF p # 0 THEN U16(Or1(state + (p * 2))) ELSE state

\* *was_pressed = state & 1;
ReadWas(state) == state % 2

\* ClearWas as it would be if reading the flag cleared the whole cell.
ClearWasWholeCell(state) == 0

\* ClearWas as it would be if reading the flag cleared nothing.
ClearWasNothing(state) == state

\* state &= ~1;
ClearWas(state) == state - (state % 2)

\* ReadNum as it would be without the shift.
ReadNumUnshifted(state) == state

\* *num_presses = state >> 1;
ReadNum(state) == state \div 2

\* state &= 1;
ClearNum(state) == state % 2

\* The body of the "if (was != NULL || num != NULL)" block: fold the raw
\* edge count, then read and clear the requested sub-fields in order.
\* NoOutput stands for an output that was not requested (a NULL pointer).
PollCell(state, p, wantWas, wantNum) ==
    LET s1 == Fold(state, p)
        s2 == IF wantWas THEN ClearWas(s1) ELSE s1
        s3 == IF wantNum THEN ClearNum(s2) ELSE s2
    IN  [folded |-> s1,
         was    |-> IF wantWas THEN ReadWas(s1) ELSE NoOutput,
         num    |-> IF wantNum THEN ReadNum(s2) ELSE NoOutput,
         cell   |-> s3]

\* pin_state_index of microbit_hal_pin_touch_state
PinStateIndex(pin) == IF pin = MICROBIT_HAL_PIN_LOGO THEN 3 ELSE pin

----------------------------------------------------------------------------
(* History of one channel, chosen arbitrarily at the start, for the         *)
(* statements about sequences of polls of a channel.                       *)

BtnChan(b) == <<"button", b>>
TouchChan(pin) == <<"touch", pin>>
Channels == {BtnChan(b) : b \in Buttons} \cup {TouchChan(p) : p \in TouchPins}

NoHist ==
    [reported   |-> 0,       \* edges reported to polls that requested an output
     returned   |-> 0,       \* sum of the counts such polls returned
     overflowed |-> FALSE,   \* a fold took the pending count above 15 bits
     lastWas    |-> NoOutput,  \* was-active as the last such poll returned it
     batches    |-> <<>>]    \* non-zero batches folded since the last count read

\* The history after a poll that requested at least one output.
HistAfter(h, state, p, wantWas, wantNum, r) ==
    [reported   |-> h.reported + p,
     returned   |-> IF wantNum THEN h.returned + r.num ELSE h.returned,
     overflowed |-> h.overflowed \/ ((state \div 2) + p > CountLimit),
     lastWas    |-> r.was,
     batches    |-> IF wantNum THEN <<>>
                    ELSE IF p # 0 THEN Append(h.batches, p) ELSE h.batches]

\* The stored cell of a channel, and the edges the device layer holds for it.
CellOf(c) ==
    IF c[1] = "button" THEN button_state[c[2]] ELSE touch_state[PinStateIndex(c[2])]

PendingOf(c) ==
    IF c[1] = "button" THEN clickCount[c[2]] ELSE touchCount[c[2]]

NoCall == [op |-> "none"]

\* The record of a call on channel c: kept when c is the followed channel.
Observe(c, rec) == IF c = watch THEN rec ELSE NoCall

\* The sizes of an edge event on channel c.
EdgeSizes(c) == IF c = watch THEN EdgeBatches ELSE {1}

\* What isPressed() / isTouched() can answer.  The answer only shows in the
\* record of the call, so one answer is enough for the other channels.
Answers(c) == IF c = watch THEN BOOLEAN ELSE {FALSE}

----------------------------------------------------------------------------
(* The device layer: edges arrive between polls and are counted until the  *)
(* next wasPressed() / wasTouched(), which returns the count and zeroes it.*)

ButtonEdge(b, n) ==
    /\ edgeEvents < MaxEdgeEvents
    /\ edgeEvents' = edgeEvents + 1
    /\ clickCount' = [clickCount EXCEPT ![b] = @ + n]
    /\ call' = NoCall
    /\ UNCHANGED <<cellVars, touchCount, watch, hist, displayVars, spi, pullVars>>

TouchEdge(pin, n) ==
    /\ edgeEvents < MaxEdgeEvents
    /\ edgeEvents' = edgeEvents + 1
    /\ touchCount' = [touchCount EXCEPT ![pin] = @ + n]
    /\ call' = NoCall
    /\ UNCHANGED <<cellVars, clickCount, watch, hist, displayVars, spi, pullVars>>

----------------------------------------------------------------------------
(* microbit_hal_button_state(button, was_pressed, num_presses).            *)
(* wantWas / wantNum: the output pointer is not NULL.  cur: what           *)
(* b->isPressed() answers at line 355.                                     *)

\* ButtonReturn as it would be if the call returned the was-pressed flag.
ButtonReturnWas(cur, r) == r.was = 1

ButtonReturn(cur, r) == cur

microbit_hal_button_state(button, wantWas, wantNum, cur) ==
    LET c     == BtnChan(button)
        state == button_state[button]
        p     == clickCount[button]
        r     == PollCell(state, p, wantWas, wantNum)
    IN  /\ IF wantWas \/ wantNum
           THEN /\ button_state' = [button_state EXCEPT ![button] = r.cell]
                /\ clickCount' = [clickCount EXCEPT ![button] = 0]
                /\ hist' = IF c = watch
                           THEN HistAfter(hist, state, p, wantWas, wantNum, r)
                           ELSE hist
                /\ call' = Observe(c,
                              [op |-> "poll", wantWas |-> wantWas,
                               wantNum |-> wantNum, raw |-> p, pre |-> state,
                               folded |-> r.folded, was |-> r.was, num |-> r.num,
                               prev |-> [lastWas |-> hist.lastWas,
                                        batches |-> hist.batches],
                               cur |-> cur, ret |-> ButtonReturn(cur, r)])
           ELSE /\ UNCHANGED <<button_state, clickCount, hist>>
                /\ call' = Observe(c,
                              [op |-> "peek", pre |-> state, pending |-> p,
                               cur |-> cur, ret |-> ButtonReturn(cur, r)])
        /\ UNCHANGED <<touch_state, touchCount, edgeEvents, watch, displayVars, spi, pullVars>>

----------------------------------------------------------------------------
(* microbit_hal_pin_touch_state(pin, was_touched, num_touches).            *)

TouchReturn(cur, r) == cur

microbit_hal_pin_touch_state(pin, wantWas, wantNum, cur) ==
    LET c     == TouchChan(pin)
        i     == PinStateIndex(pin)
        state == touch_state[i]
        t     == touchCount[pin]
        r     == PollCell(state, t, wantWas, wantNum)
    IN  /\ IF wantWas \/ wantNum
           THEN /\ touch_state' = [touch_state EXCEPT ![i] = r.cell]
                /\ touchCount' = [touchCount EXCEPT ![pin] = 0]
                /\ hist' = IF c = watch
                           THEN HistAfter(hist, state, t, wantWas, wantNum, r)
                           ELSE hist
                /\ call' = Observe(c,
                              [op |-> "poll", wantWas |-> wantWas,
                               wantNum |-> wantNum, raw |-> t, pre |-> state,
                               folded |-> r.folded, was |-> r.was, num |-> r.num,
                               prev |-> [lastWas |-> hist.lastWas,
                                        batches |-> hist.batches],
                               cur |-> cur, ret |-> TouchReturn(cur, r)])
           ELSE /\ UNCHANGED <<touch_state, touchCount, hist>>
                /\ call' = Observe(c,
                              [op |-> "peek", pre |-> state, pending |-> t,
                               cur |-> cur, ret |-> TouchReturn(cur, r)])
        /\ UNCHANGED <<button_state, clickCount, edgeEvents, watch, displayVars, spi, pullVars>>

----------------------------------------------------------------------------
(* The display: microbit_hal_display_set_pixel / _get_pixel over the       *)
(* device layer's image, which keeps one raw intensity 0..255 per pixel.   *)

\* static uint8_t bright_map[10] (bright_map[i] of the source is bright_map[i + 1])
bright_map == <<0, 1, 2, 4, 8, 16, 32, 64, 128, 255>>

\* the pixels the model writes and reads: two corners of the 5 x 5 matrix
Pixels == {<<0, 0>>, <<4, 4>>}

\* the levels callers pass: the ten levels and values on both sides of them
BrightInputs == {0 - 7, 0 - 1} \cup (0 .. 9) \cup {10, 300}

\* the raw intensities a pixel of the image can hold (a byte)
RawValues == 0 .. 255

\* ClampBright as it would be without the upper clamp.
ClampBrightBelow(bright) ==
    IF bright < 0 THEN 0 ELSE bright

\* if (bright < 0) bright = 0; else if (bright > 9) bright = 9;
ClampBright(bright) ==
    IF bright < 0 THEN 0 ELSE IF bright > 9 THEN 9 ELSE bright

\* bright_map[index]: the table entry, or whatever byte lies there when the
\* index is outside the table
BrightMapRead(index) ==
    IF index \in 0 .. 9 THEN {bright_map[index + 1]} ELSE RawValues

\* number of bits of v: the position of its highest set bit
RECURSIVE BitLength(_)
BitLength(v) == IF v = 0 THEN 0 ELSE 1 + BitLength(v \div 2)

\* __builtin_clz(pixel) on a uint32_t.  The build is for the nRF52 (ARMv7E-M),
\* where this is the CLZ instruction, which gives 32 for 0.
Clz32(v) == 32 - BitLength(v)

\* LevelOfRaw as it would be without the case for 255.
LevelOfRawByBits(pixel) == 32 - Clz32(pixel)

\* if (pixel == 255) return 9; else return 32 - __builtin_clz(pixel);
LevelOfRaw(pixel) ==
    IF pixel = 255 THEN 9 ELSE 32 - Clz32(pixel)

microbit_hal_display_set_pixel(px, bright) ==
    LET index == ClampBright(bright)
    IN  \E raw \in BrightMapRead(index) :
          /\ image' = [image EXCEPT ![px] = raw]
          /\ lastBright' = [lastBright EXCEPT ![px] = {bright}]
          /\ call' = [op |-> "set_pixel", px |-> px, bright |-> bright,
                      index |-> index, raw |-> raw]
          /\ UNCHANGED <<cellVars, counterVars, spi, pullVars>>

microbit_hal_display_get_pixel(px) ==
    /\ call' = [op |-> "get_pixel", px |-> px, raw |-> image[px],
                set |-> lastBright[px], ret |-> LevelOfRaw(image[px])]
    /\ UNCHANGED <<cellVars, counterVars, displayVars, spi, pullVars>>

----------------------------------------------------------------------------
(* Status codes.  The device layer answers with its own codes; the log     *)
(* calls translate them, the bus calls hand them on.                       *)

\* device-layer codes (CODAL ErrorNo.h)
DEVICE_OK == 0
DEVICE_NOT_SUPPORTED == -1002
DEVICE_NO_RESOURCES == -1005

\* what a device call can answer: the codes the source names, and the codes
\* for an invalid parameter, a busy peripheral and an I2C error
DeviceCodes == {DEVICE_OK, DEVICE_NOT_SUPPORTED, DEVICE_NO_RESOURCES,
                0 - 1001, 0 - 1006, 0 - 1010}

\* the HAL's codes (microbithal.h)
MICROBIT_HAL_DEVICE_OK == 0
MICROBIT_HAL_DEVICE_NO_RESOURCES == -1
MICROBIT_HAL_DEVICE_ERROR == -2

\* The conversion as it would be if the device code were handed on.
ConvertUnchanged(result) == result

microbit_hal_log_convert_return_value(result) ==
    IF result = DEVICE_OK THEN MICROBIT_HAL_DEVICE_OK
    ELSE IF result = DEVICE_NO_RESOURCES THEN MICROBIT_HAL_DEVICE_NO_RESOURCES
    ELSE MICROBIT_HAL_DEVICE_ERROR

\* One device-layer call and its answer.
Dev(fn, res) == [fn |-> fn, res |-> res]

\* A HAL function that makes the device calls fns in order, stops at the first
\* answer that is not DEVICE_OK and returns it, and returns 0 after the last.
\* answers[i] is what call i would answer.  Gives the calls made and the result.
RECURSIVE RunUntilError(_, _, _)
RunUntilError(fns, answers, made) ==
    IF fns = <<>> THEN [dev |-> made, ret |-> 0]
    ELSE LET d == Dev(Head(fns), Head(answers))
         IN  IF d.res # DEVICE_OK
             THEN [dev |-> Append(made, d), ret |-> d.res]
             ELSE RunUntilError(Tail(fns), Tail(answers), Append(made, d))

\* The step of a status-returning HAL function op with outcome r.
Returns(op, r) ==
    /\ call' = [op |-> op, dev |-> r.dev, ret |-> r.ret]
    /\ UNCHANGED <<cellVars, counterVars, displayVars, pullVars>>

microbit_hal_log_begin_row(d) ==
    /\ Returns("log_begin_row",
               [dev |-> <<Dev("beginRow", d)>>,
                ret |-> microbit_hal_log_convert_return_value(d)])
    /\ UNCHANGED spi

microbit_hal_log_end_row(d) ==
    /\ Returns("log_end_row",
               [dev |-> <<Dev("endRow", d)>>,
                ret |-> microbit_hal_log_convert_return_value(d)])
    /\ UNCHANGED spi

microbit_hal_log_data(d) ==
    /\ Returns("log_data",
               [dev |-> <<Dev("logData", d)>>,
                ret |-> microbit_hal_log_convert_return_value(d)])
    /\ UNCHANGED spi

microbit_hal_i2c_init(d1, d2) ==
    /\ Returns("i2c_init",
               RunUntilError(<<"i2c.redirect", "i2c.setFrequency">>, <<d1, d2>>, <<>>))
    /\ UNCHANGED spi

microbit_hal_i2c_readfrom(d) ==
    /\ Returns("i2c_readfrom", RunUntilError(<<"i2c.read">>, <<d>>, <<>>))
    /\ UNCHANGED spi

microbit_hal_i2c_writeto(d) ==
    /\ Returns("i2c_writeto", RunUntilError(<<"i2c.write">>, <<d>>, <<>>))
    /\ UNCHANGED spi

microbit_hal_uart_init(d1, d2) ==
    /\ Returns("uart_init",
               RunUntilError(<<"serial.redirect", "serial.setBaud">>, <<d1, d2>>, <<>>))
    /\ UNCHANGED spi

\* spi == NULL: the object is made, nothing can fail there; else it is redirected.
microbit_hal_spi_init(d1, d2, d3) ==
    /\ Returns("spi_init",
               IF ~spi
               THEN RunUntilError(<<"spi.setFrequency", "spi.setMode">>,
                                  <<d2, d3>>, <<>>)
               ELSE RunUntilError(<<"spi.redirect", "spi.setFrequency", "spi.setMode">>,
                                  <<d1, d2, d3>>, <<>>))
    /\ spi' = TRUE

\* Callers transfer only after microbit_hal_spi_init: spi is not NULL.
\* return ret: the answer of spi->transfer as it is.
microbit_hal_spi_transfer(destNull, d) ==
    /\ spi
    /\ Returns("spi_transfer",
               [dev |-> <<Dev(IF destNull THEN "spi.transfer(src)"
                              ELSE "spi.transfer(src,dest)", d)>>,
                ret |-> d])
    /\ UNCHANGED spi

----------------------------------------------------------------------------
(* Pull modes: microbit_hal_pin_set_pull / _get_pull.                      *)

\* HAL_ARRAY_SIZE(pin_obj)
NumPins == 41

\* number of elements of pin_pull_state: 32 + 6
PullStateSize == 38

\* set_pull calls in one behaviour
MaxPullCalls == 1

Pins == 0 .. (NumPins - 1)

\* pin_pull_mode_mapping (index pull + 1)
pin_pull_mode_mapping == <<"Up", "Down", "None">>

PullInputs == 0 .. 2

\* pin_pull_state[pin] with pin past the end of the array is a byte of whatever
\* the build placed after it: the next static array of the file, the one
\* after that, or another object.  The bytes are those of the little-endian
\* uint16_t cells.
Layouts == {"touch_state", "button_state", "other"}

\* byte k of an array of 16-bit cells (indexed from 0)
ByteOf(cells, k) ==
    IF k % 2 = 0 THEN cells[k \div 2] % 256 ELSE cells[k \div 2] \div 256

\* the array of 16-bit cells with byte k set to v
WithByte(cells, k, v) ==
    [cells EXCEPT ![k \div 2] =
        IF k % 2 = 0 THEN ((@ \div 256) * 256) + v ELSE (@ % 256) + (256 * v)]

\* the function f with x mapped to v
With(f, x, v) ==
    [y \in (DOMAIN f) \cup {x} |-> IF y = x THEN v ELSE f[y]]

\* pin_pull_state[pin] = pull
StorePull(pin, pull) ==
    IF pin < PullStateSize
    THEN /\ pin_pull_state' = [pin_pull_state EXCEPT ![pin + 1] = pull]
         /\ UNCHANGED <<cellVars, spill>>
    ELSE LET k == pin - PullStateSize
         IN  /\ UNCHANGED pin_pull_state
             /\ touch_state' = IF layout = "touch_state"
                               THEN WithByte(touch_state, k, pull) ELSE touch_state
             /\ button_state' = IF layout = "button_state"
                                THEN WithByte(button_state, k, pull) ELSE button_state
             /\ spill' = IF layout = "other"
                         THEN [spill EXCEPT ![k] = pull] ELSE spill

\* return pin_pull_state[pin]
LoadPull(pin) ==
    IF pin < PullStateSize THEN pin_pull_state[pin + 1]
    ELSE LET k == pin - PullStateSize
         IN  IF layout = "touch_state" THEN ByteOf(touch_state, k)
             ELSE IF layout = "button_state" THEN ByteOf(button_state, k)
             ELSE spill[k]

microbit_hal_pin_set_pull(pin, pull) ==
    /\ pullCalls < MaxPullCalls
    /\ pullCalls' = pullCalls + 1
    /\ pinPullMode' = With(pinPullMode, pin, pin_pull_mode_mapping[pull + 1])
    /\ StorePull(pin, pull)
    /\ lastPull' = With(lastPull, pin, pull)
    /\ call' = [op |-> "set_pull", pin |-> pin, pull |-> pull]
    /\ UNCHANGED <<counterVars, displayVars, spi, layout>>

microbit_hal_pin_get_pull(pin) ==
    /\ call' = [op |-> "get_pull", pin |-> pin,
                set |-> IF pin \in DOMAIN lastPull THEN {lastPull[pin]} ELSE {},
                ret |-> LoadPull(pin)]
    /\ UNCHANGED <<cellVars, counterVars, displayVars, spi, pullVars>>

----------------------------------------------------------------------------
(* Initial states and specifications.                                      *)

\* The state after start-up: the statics are zero, spi is NULL, the device
\* layer holds no edges.  w: the followed channel; v: the raw intensity the
\* display driver left in the image; l: the layout of the build.
Boot(w, v, l) ==
    /\ button_state = [b \in Buttons |-> 0]
    /\ touch_state = [i \in 0 .. (NumTouchCells - 1) |-> 0]
    /\ pin_pull_state = [i \in 1 .. PullStateSize |-> 0]
    /\ clickCount = [b \in Buttons |-> 0]
    /\ touchCount = [p \in TouchPins |-> 0]
    /\ edgeEvents = 0
    /\ watch = w
    /\ hist = NoHist
    /\ image = [px \in Pixels |-> v]
    /\ lastBright = [px \in Pixels |-> {}]
    /\ spi = FALSE
    /\ layout = l
    /\ spill = [k \in 0 .. (NumPins - PullStateSize - 1) |-> 0]
    /\ pinPullMode = <<>>
    /\ lastPull = <<>>
    /\ pullCalls = 0
    /\ call = NoCall

Init == \E w \in Channels, v \in RawValues, l \in Layouts : Boot(w, v, l)

\* The counters: edges and polls of every button and touch channel.
InitPoll == \E w \in Channels : Boot(w, 0, "other")

NextPoll ==
    \/ \E b \in Buttons : \E n \in EdgeSizes(BtnChan(b)) : ButtonEdge(b, n)
    \/ \E p \in TouchPins : \E n \in EdgeSizes(TouchChan(p)) : TouchEdge(p, n)
    \/ \E b \in Buttons, w \in BOOLEAN, k \in BOOLEAN :
          \E cur \in Answers(BtnChan(b)) : microbit_hal_button_state(b, w, k, cur)
    \/ \E p \in TouchPins, w \in BOOLEAN, k \in BOOLEAN :
          \E cur \in Answers(TouchChan(p)) : microbit_hal_pin_touch_state(p, w, k, cur)

SpecPoll == InitPoll /\ [][NextPoll]_vars

\* The display, from an image that holds any raw intensity.
InitDisplay == \E v \in RawValues : Boot(BtnChan(0), v, "other")

NextDisplay ==
    \/ \E px \in Pixels, bright \in BrightInputs :
          microbit_hal_display_set_pixel(px, bright)
    \/ \E px \in Pixels : microbit_hal_display_get_pixel(px)

SpecDisplay == InitDisplay /\ [][NextDisplay]_vars

\* The status-returning calls, with every answer of the device layer.
InitStatus == Boot(BtnChan(0), 0, "other")

NextStatus ==
    \/ \E d \in DeviceCodes : microbit_hal_log_begin_row(d)
    \/ \E d \in DeviceCodes : microbit_hal_log_end_row(d)
    \/ \E d \in DeviceCodes : microbit_hal_log_data(d)
    \/ \E d1 \in DeviceCodes, d2 \in DeviceCodes : microbit_hal_i2c_init(d1, d2)
    \/ \E d \in DeviceCodes : microbit_hal_i2c_readfrom(d)
    \/ \E d \in DeviceCodes : microbit_hal_i2c_writeto(d)
    \/ \E d1 \in DeviceCodes, d2 \in DeviceCodes : microbit_hal_uart_init(d1, d2)
    \/ \E d1 \in DeviceCodes, d2 \in DeviceCodes, d3 \in DeviceCodes :
          microbit_hal_spi_init(d1, d2, d3)
    \/ \E n \in BOOLEAN, d \in DeviceCodes : microbit_hal_spi_transfer(n, d)

SpecStatus == InitStatus /\ [][NextStatus]_vars

\* The pull modes, under every layout of the build.
InitPull == \E l \in Layouts : Boot(BtnChan(0), 0, l)

NextPull ==
    \/ \E pin \in Pins, pull \in PullInputs : microbit_hal_pin_set_pull(pin, pull)
    \/ \E pin \in Pins : microbit_hal_pin_get_pull(pin)

SpecPull == InitPull /\ [][NextPull]_vars

\* The whole shim.
Next == NextPoll \/ NextDisplay \/ NextStatus \/ NextPull

Spec == Init /\ [][Next]_vars

----------------------------------------------------------------------------
(* Statements about the packed counter.  They speak of the followed        *)
(* channel, which is any button or touch channel.                          *)

BothPoll == call.op = "poll" /\ call.wantWas /\ call.wantNum

\* C1 as stated: a poll that requests both outputs and is told N > 0 edges
\* returns was_active = 1 and activation_count = N and leaves the cell 0.
C1_AsStated ==
    (BothPoll /\ call.raw > 0) =>
        /\ call.was = 1
        /\ call.num = call.raw
        /\ CellOf(watch) = 0

\* C1: a poll that requests both outputs and is told N > 0 edges returns
\* was_active = 1 and leaves the cell 0; it returns activation_count = N
\* when no count was pending in the cell before it and N fits 15 bits, and
\* in general the pending count plus N modulo 2^15.
C1_BothOutputs ==
    (BothPoll /\ call.raw > 0) =>
        /\ call.was = 1
        /\ CellOf(watch) = 0
        /\ (call.pre \div 2 = 0 /\ call.raw <= CountLimit) => call.num = call.raw
        /\ call.num = ((call.pre \div 2) + call.raw) % (CountLimit + 1)

C1_Witness ==
    /\ BothPoll
    /\ call.raw > 1
    /\ call.pre \div 2 = 0
    /\ call.num = call.raw
    /\ hist.reported > call.raw

\* What (old + (raw << 1)) | 1 is in a 16-bit cell.
FoldedValue(old, raw) ==
    LET x == (old + (2 * raw)) % CellModulus
    IN  IF x % 2 = 0 THEN x + 1 ELSE x

TwoBatches ==
    /\ call.op = "poll"
    /\ call.wantNum
    /\ call.raw = 0
    /\ Len(call.prev.batches) = 2

\* C2 as stated: after two batches A and B were folded by polls that did not
\* request the count, the next poll that requests it returns A + B; each fold
\* stores (old + (raw << 1)) | 1.
C2_AsStated ==
    /\ TwoBatches => call.num = call.prev.batches[1] + call.prev.batches[2]
    /\ (call.op = "poll" /\ call.raw > 0) =>
           call.folded = FoldedValue(call.pre, call.raw)

\* C2: the same, when A + B fits the 15 count bits.
C2_Accumulation ==
    /\ (TwoBatches /\ call.prev.batches[1] + call.prev.batches[2] <= CountLimit)
           => call.num = call.prev.batches[1] + call.prev.batches[2]
    /\ (call.op = "poll" /\ call.raw > 0) =>
           call.folded = FoldedValue(call.pre, call.raw)

C2_Witness ==
    /\ TwoBatches
    /\ call.prev.batches[1] + call.prev.batches[2] <= CountLimit
    /\ call.num = 2

\* C3: a count-only poll leaves bit 0 as the additive update left it and
\* zeroes the count bits; a flag-only poll clears bit 0 and leaves the count
\* bits as the additive update left them (old count plus the new edges).
C3_Independence ==
    /\ (call.op = "poll" /\ ~call.wantWas /\ call.wantNum) =>
           /\ CellOf(watch) % 2 = call.folded % 2
           /\ CellOf(watch) % 2 = (IF call.raw > 0 THEN 1 ELSE call.pre % 2)
           /\ CellOf(watch) \div 2 = 0
    /\ (call.op = "poll" /\ call.wantWas /\ ~call.wantNum) =>
           /\ CellOf(watch) % 2 = 0
           /\ CellOf(watch) \div 2 = call.folded \div 2
           /\ ((call.pre \div 2) + call.raw <= CountLimit) =>
                  CellOf(watch) \div 2 = (call.pre \div 2) + call.raw

C3_Witness ==
    /\ call.op = "poll" /\ call.wantWas /\ ~call.wantNum
    /\ call.pre \div 2 > 0
    /\ call.raw > 0
    /\ CellOf(watch) \div 2 = (call.pre \div 2) + call.raw

\* C4: a poll that requests was-active after at least one edge returns 1, and
\* the next poll of the channel that requests it, told no new edge, returns 0.
C4_Idempotence ==
    /\ (call.op = "poll" /\ call.wantWas /\ (call.raw > 0 \/ call.pre % 2 = 1))
           => call.was = 1
    /\ (call.op = "poll" /\ call.wantWas /\ call.raw = 0 /\ call.prev.lastWas = 1)
           => call.was = 0

C4_Witness ==
    /\ call.op = "poll" /\ call.wantWas /\ call.raw = 0
    /\ call.prev.lastWas = 1
    /\ call.was = 0

\* C5: a poll that requests neither output leaves the cell and the device
\* layer's pending edges as they were and returns the instantaneous state;
\* every other poll returns the instantaneous state too.
C5_Bypass ==
    /\ call.op = "peek" =>
           /\ CellOf(watch) = call.pre
           /\ PendingOf(watch) = call.pending
           /\ call.ret = call.cur
    /\ call.op = "poll" => call.ret = call.cur

C5_Witness ==
    /\ call.op = "peek"
    /\ call.pending > 0
    /\ call.pre > 0
    /\ call.ret = TRUE

\* C10: while no fold has taken the pending count past 15 bits, the counts
\* returned so far plus the count pending in the cell equal the edges told to
\* the polls that requested an output; a fold of a non-zero batch sets bit 0.
C10_NoEdgeLost ==
    /\ ~hist.overflowed =>
           hist.returned + (CellOf(watch) \div 2) = hist.reported
    /\ (call.op = "poll" /\ call.raw > 0) => call.folded % 2 = 1

C10_Witness ==
    /\ ~hist.overflowed
    /\ hist.returned > 0
    /\ CellOf(watch) \div 2 > 0
    /\ call.op = "poll"
    /\ hist.returned + (CellOf(watch) \div 2) = hist.reported

----------------------------------------------------------------------------
(* Statements about the status codes.                                      *)

LogOps == {"log_begin_row", "log_end_row", "log_data"}
BusOps == {"i2c_init", "i2c_readfrom", "i2c_writeto", "uart_init",
           "spi_init", "spi_transfer"}
ThreeValues == {MICROBIT_HAL_DEVICE_OK, MICROBIT_HAL_DEVICE_NO_RESOURCES,
                MICROBIT_HAL_DEVICE_ERROR}

\* C6 as stated: every call that forwards a device-layer status returns one of
\* success, resource-exhausted and generic-error.
C6_AsStated ==
    call.op \in (LogOps \cup BusOps) => call.ret \in ThreeValues

\* C6: a log call makes its one device call and returns success,
\* resource-exhausted or generic-error as that call answered; a bus call makes
\* each of its device calls at most once, stops at the first that fails, and
\* returns 0 when none failed and else the failing call's own code, unchanged.
C6_StatusCodes ==
    /\ call.op \in LogOps =>
           /\ Len(call.dev) = 1
           /\ call.ret \in ThreeValues
           /\ (call.ret = MICROBIT_HAL_DEVICE_OK) = (call.dev[1].res = DEVICE_OK)
           /\ (call.ret = MICROBIT_HAL_DEVICE_NO_RESOURCES)
                  = (call.dev[1].res = DEVICE_NO_RESOURCES)
    /\ call.op \in BusOps =>
           /\ \A i, j \in 1 .. Len(call.dev) :
                  call.dev[i].fn = call.dev[j].fn => i = j
           /\ \A i \in 1 .. (Len(call.dev) - 1) : call.dev[i].res = DEVICE_OK
           /\ call.ret = IF call.dev[Len(call.dev)].res = DEVICE_OK
                         THEN 0 ELSE call.dev[Len(call.dev)].res

C6_Witness ==
    /\ call.op = "spi_init"
    /\ Len(call.dev) = 3
    /\ call.ret = DEVICE_NO_RESOURCES

----------------------------------------------------------------------------
(* Statements about the display.                                           *)

\* the ten raw intensities of the levels 0..9, as the specification lists them
Levels == <<0, 1, 2, 4, 8, 16, 32, 64, 128, 255>>

Abs(x) == IF x < 0 THEN 0 - x ELSE x

InTable(raw) == \E j \in 1 .. 10 : Levels[j] = raw

RoundTrip ==
    call.op = "get_pixel" =>
        \A L \in call.set \cap (0 .. 9) : call.ret = L

\* C7 as stated: set_pixel(x, y, L) with L in 0..9 followed by get_pixel(x, y)
\* returns L; for a raw value outside the table get_pixel returns a level in
\* 0..9 whose table entry is the nearest one.
C7_AsStated ==
    /\ RoundTrip
    /\ (call.op = "get_pixel" /\ ~InTable(call.raw)) =>
           /\ call.ret \in 0 .. 9
           /\ \A j \in 1 .. 10 :
                  Abs(call.raw - Levels[call.ret + 1]) <= Abs(call.raw - Levels[j])

\* C7: set_pixel(x, y, L) with L in 0..9 followed by get_pixel(x, y) returns
\* L; for a raw value outside the table get_pixel returns the level in 0..8
\* of the largest table entry below the raw value.
C7_RoundTrip ==
    /\ RoundTrip
    /\ (call.op = "get_pixel" /\ ~InTable(call.raw)) =>
           /\ call.ret \in 0 .. 8
           /\ Levels[call.ret + 1] < call.raw
           /\ call.raw < Levels[call.ret + 2]

C7_Witness ==
    /\ call.op = "get_pixel"
    /\ call.set = {9}
    /\ call.ret = 9
    /\ \E px \in Pixels : image[px] = 7

\* C8: set_pixel writes raw 0 for a level below 0, raw 255 for a level above
\* 9 and the table entry for a level 0..9, and indexes the table inside 0..9.
C8_BrightnessMapping ==
    call.op = "set_pixel" =>
        /\ call.index \in 0 .. 9
        /\ call.raw = IF call.bright < 0 THEN 0
                      ELSE IF call.bright > 9 THEN 255
                      ELSE Levels[call.bright + 1]
        /\ image[call.px] = call.raw

C8_Witness ==
    /\ call.op = "set_pixel"
    /\ call.bright > 9
    /\ image[call.px] = 255

----------------------------------------------------------------------------
(* Statements about the pull modes.                                        *)

\* C9: set_pull on a pin of pin_obj stores the pull in a slot of
\* pin_pull_state, get_pull returns the pull last set for the pin, and
\* set_pull changes neither touch_state nor button_state (no poll runs here:
\* they stay zero).
C9_AsStated ==
    /\ call.op = "set_pull" => (call.pin + 1) \in DOMAIN pin_pull_state
    /\ call.op = "get_pull" => \A pull \in call.set : call.ret = pull
    /\ touch_state = [i \in 0 .. (NumTouchCells - 1) |-> 0]
    /\ button_state = [b \in Buttons |-> 0]

====
